---- MODULE Spec2Model ----
(***************************************************************************)
(* Model of the tmm repository (Transfer Matrix Method for Bragg gratings): *)
(* the 2x2 complex matrix algebra of inc/tmm.h, the layer models, the Bragg *)
(* grating engine of src/bragg.cc and the compact material model of         *)
(* inc/cml.h.                                                               *)
(*                                                                          *)
(* Numbers.  A C++ double is modelled as an IEEE-like value in sign and     *)
(* magnitude: a finite rational s * n / d (zero keeps its sign), an         *)
(* infinity of sign s, or NaN.  Finite arithmetic is exact: the rounding of *)
(* a double is not modelled.  A std::complex<double> is a record of two     *)
(* such values.                                                             *)
(*                                                                          *)
(* Units.  exp and sqrt leave the rationals, so the model measures an       *)
(* angle in quarter turns (pi/2) and a real exponent in units of ln 2:      *)
(* exp(x ln2 + i q pi/2) = 2^x * i^q.  The model's 2*pi is therefore the    *)
(* number 4, and a loss is given in units of ln 2 per unit length.          *)
(***************************************************************************)
EXTENDS Integers, Sequences, FiniteSets, TLC

VARIABLES
    \* ---- matrix algebra harness (tmm.h, matrix_power) ----
    pw_T,        \* the input matrix T
    pw_a,        \* first exponent
    pw_b,        \* second exponent
    pw_pa,       \* result record of matrix_power(T, TN, a), or NoCall
    pw_pb,       \* result record of matrix_power(T, TN, b), or NoCall
    pw_pab,      \* result record of matrix_power(T, TN, a + b), or NoCall
    pw_prod,     \* multiply(pa.TN, pb.TN), or NoCall
    \* ---- Bragg grating harness (bragg.h) ----
    br_self,     \* the Bragg object: its fields _period, _duty_cycle, _N
    br_args,     \* the arguments wavelength, n1, n2, loss of the calls
    br_call,     \* the member function that returned last, or "none"
    br_ret,      \* what that call returned or wrote
    br_err,      \* the error that call signalled to its caller, or "none"
    \* ---- coefficient extraction harness (tmm.h) ----
    db_S,        \* the scattering matrix S
    db_call,     \* "scattering_coefficients_db" once it has returned
    db_ret,      \* the R and T it wrote
    db_err,      \* the error it signalled, or "none"
    \* ---- compact model harness (cml.h) ----
    cm_model,    \* the cml evaluated
    cm_args,     \* the arguments l, w, i of operator()
    cm_call,     \* "evaluate" once operator() has been entered
    cm_ret,      \* its outcome: the value returned, the reads made, the error
    \* ---- sweep of main (tmm.cc) ----
    sw_ctx,      \* the control structure ctx after parsing and validation
    sw_pc,       \* "idle", "sweep", "done" (return 0) or "crashed"
    sw_pos,      \* the positions of the six nested range-for loops
    sw_idx,      \* the local idx of the wavelength loop
    sw_row,      \* the values of the last iteration of the wavelength loop
    sw_rows,     \* the number of rows printed
    sw_oob,      \* whether any read so far was past the end of a vector
    sw_err,      \* the error caught by main's handler, or "none"
    \* ---- command line and validation of main (tmm.cc) ----
    mn_ctx,      \* the control structure ctx while the options are processed
    mn_given,    \* the model options given for n1 and n2 since their last --n1, --n2
    mn_pc,       \* "idle", "parse", "exit" (return -1), "run" or "crashed"
    mn_msg,      \* the error message written, or "none"
    mn_warn,     \* the warnings written by the validation
    mn_null,     \* whether a null model pointer has been dereferenced
    \* ---- sequences of calls on one Bragg object (bragg.cc) ----
    bs_self,     \* the object: its fields _period, _duty_cycle and _N
    bs_made,     \* the fields as the constructor set them
    bs_conv,     \* the count an out-of-range _N converts to in this run
    bs_call,     \* the member function called last, or "none"
    bs_args,     \* the arguments of that call
    bs_ret,      \* what that call returned
    bs_first,    \* per member function and arguments, what their first call returned
    \* ---- one call of matrix_power, statement by statement (tmm.h) ----
    lp_T,        \* the input matrix T
    lp_N0,       \* the argument N
    lp_pc,       \* "idle", "entry", "loop" or "done" (returned)
    lp_N,        \* the local N, halved by each iteration
    lp_result,   \* the local result
    lp_base,     \* the local base
    lp_multiplies, \* the calls of multiply so far
    lp_TN        \* the output matrix TN

pwVars == <<pw_T, pw_a, pw_b, pw_pa, pw_pb, pw_pab, pw_prod>>

brVars == <<br_self, br_args, br_call, br_ret, br_err>>

dbVars == <<db_S, db_call, db_ret, db_err>>

cmVars == <<cm_model, cm_args, cm_call, cm_ret>>

swVars == <<sw_ctx, sw_pc, sw_pos, sw_idx, sw_row, sw_rows, sw_oob, sw_err>>

mnVars == <<mn_ctx, mn_given, mn_pc, mn_msg, mn_warn, mn_null>>

bsVars == <<bs_self, bs_made, bs_conv, bs_call, bs_args, bs_ret, bs_first>>

lpVars == <<lp_T, lp_N0, lp_pc, lp_N, lp_result, lp_base, lp_multiplies, lp_TN>>

vars == <<pwVars, brVars, dbVars, cmVars, swVars, mnVars, bsVars, lpVars>>

(***************************************************************************)
(* Bounds of the model.                                                     *)
(***************************************************************************)
\* largest exponent drawn for each of the two exponents of the harness
MaxN == 3

\* largest count an undefined double-to-size_t conversion is taken to yield
MaxUB == 1

\* longest sample vector drawn, and largest sample index drawn
MaxSamples == 3

(***************************************************************************)
(* Real numbers (double).                                                   *)
(***************************************************************************)
RECURSIVE GCD(_, _)
GCD(a, b) ==
    IF b = 0 THEN a ELSE GCD(b, a % b)

Abs(x) ==
    IF x < 0 THEN -x ELSE x

RNaN ==
    [k |-> "nan", s |-> 1, n |-> 0, d |-> 1]

RInf(sg) ==
    [k |-> "inf", s |-> sg, n |-> 1, d |-> 1]

\* the finite value sg * num / den (num >= 0, den > 0), in lowest terms
Fin(sg, num, den) ==
    LET g == GCD(num, den)
    IN  [k |-> "fin", s |-> sg, n |-> num \div g, d |-> den \div g]

\* the rational num / den of a signed numerator
Rat(num, den) ==
    Fin(IF num < 0 THEN -1 ELSE 1, Abs(num), den)

Int2R(i) ==
    Rat(i, 1)

IsNaN(x) ==
    x.k = "nan"

IsInf(x) ==
    x.k = "inf"

IsFinite(x) ==
    x.k = "fin"

IsZero(x) ==
    x.k = "fin" /\ x.n = 0

\* numeric equality of doubles: NaN equals nothing, -0 equals +0
REq(x, y) ==
    /\ ~IsNaN(x)
    /\ ~IsNaN(y)
    /\ \/ x = y
       \/ IsZero(x) /\ IsZero(y)

RNeg(x) ==
    IF IsNaN(x) THEN x ELSE [x EXCEPT !.s = -x.s]

RAdd(x, y) ==
    IF IsNaN(x) \/ IsNaN(y) THEN RNaN
    ELSE IF IsInf(x) /\ IsInf(y) THEN (IF x.s = y.s THEN x ELSE RNaN)
    ELSE IF IsInf(x) THEN x
    ELSE IF IsInf(y) THEN y
    ELSE LET g   == GCD(x.d, y.d)
             num == x.s * x.n * (y.d \div g) + y.s * y.n * (x.d \div g)
             den == (x.d \div g) * y.d
         IN  IF num = 0
             THEN Fin(IF x.s = y.s THEN x.s ELSE 1, 0, 1)
             ELSE Rat(num, den)

RSub(x, y) ==
    RAdd(x, RNeg(y))

RMul(x, y) ==
    IF IsNaN(x) \/ IsNaN(y) THEN RNaN
    ELSE IF (IsInf(x) /\ IsZero(y)) \/ (IsZero(x) /\ IsInf(y)) THEN RNaN
    ELSE IF IsInf(x) \/ IsInf(y) THEN RInf(x.s * y.s)
    ELSE LET g1 == GCD(x.n, y.d)
             g2 == GCD(y.n, x.d)
         IN  IF x.n = 0 \/ y.n = 0
             THEN Fin(x.s * y.s, 0, 1)
             ELSE Fin(x.s * y.s, (x.n \div g1) * (y.n \div g2),
                                 (x.d \div g2) * (y.d \div g1))

RDiv(x, y) ==
    IF IsNaN(x) \/ IsNaN(y) THEN RNaN
    ELSE IF IsInf(x) /\ IsInf(y) THEN RNaN
    ELSE IF IsInf(x) THEN RInf(x.s * y.s)
    ELSE IF IsInf(y) THEN Fin(x.s * y.s, 0, 1)
    ELSE IF IsZero(y) THEN (IF IsZero(x) THEN RNaN ELSE RInf(x.s * y.s))
    ELSE IF IsZero(x) THEN Fin(x.s * y.s, 0, 1)
    ELSE LET g1 == GCD(x.n, y.n)
             g2 == GCD(x.d, y.d)
         IN  Fin(x.s * y.s, (x.n \div g1) * (y.d \div g2),
                            (x.d \div g2) * (y.n \div g1))

\* x < y on doubles (false when either is NaN)
RLess(x, y) ==
    /\ ~IsNaN(x)
    /\ ~IsNaN(y)
    /\ IF IsInf(x) THEN x.s = -1 /\ ~(IsInf(y) /\ y.s = -1)
       ELSE IF IsInf(y) THEN y.s = 1
       ELSE x.s * x.n * y.d < y.s * y.n * x.d

\* the integer square root of a perfect square
RECURSIVE ISqrtFrom(_, _)
ISqrtFrom(v, r) ==
    IF r * r >= v THEN r ELSE ISqrtFrom(v, r + 1)

ISqrt(v) ==
    ISqrtFrom(v, 0)

\* std::sqrt: NaN below zero, -0 for -0; the model draws only arguments
\* whose finite positive values are squares of rationals
RSqrt(x) ==
    IF IsNaN(x) THEN RNaN
    ELSE IF IsZero(x) THEN x
    ELSE IF x.s = -1 THEN RNaN
    ELSE IF IsInf(x) THEN x
    ELSE IF ISqrt(x.n) * ISqrt(x.n) # x.n \/ ISqrt(x.d) * ISqrt(x.d) # x.d
    THEN CHOOSE v \in {} : TRUE
    ELSE Fin(1, ISqrt(x.n), ISqrt(x.d))

RECURSIVE IPow(_, _)
IPow(b, e) ==
    IF e = 0 THEN 1 ELSE b * IPow(b, e - 1)

(***************************************************************************)
(* Complex numbers (std::complex<double>).                                  *)
(***************************************************************************)
Cx(re, im) ==
    [re |-> re, im |-> im]

\* the complex number a + b i of two integers
CInt(a, b) ==
    Cx(Int2R(a), Int2R(b))

CZero ==
    CInt(0, 0)

COne ==
    CInt(1, 0)

\* std::complex<double>(x): the conversion of a double
CReal(x) ==
    Cx(x, Int2R(0))

CAdd(a, b) ==
    Cx(RAdd(a.re, b.re), RAdd(a.im, b.im))

CMul(a, b) ==
    Cx(RSub(RMul(a.re, b.re), RMul(a.im, b.im)),
       RAdd(RMul(a.re, b.im), RMul(a.im, b.re)))

CIsFinite(z) ==
    IsFinite(z.re) /\ IsFinite(z.im)

CIsZero(z) ==
    IsZero(z.re) /\ IsZero(z.im)

\* numeric equality of complex values
CEq(a, b) ==
    REq(a.re, b.re) /\ REq(a.im, b.im)

\* std::complex<double> * double: both parts are scaled
CScale(z, x) ==
    Cx(RMul(z.re, x), RMul(z.im, x))

\* a value the model cannot represent: evaluating it stops the check
Unrepresentable ==
    CHOOSE v \in {} : TRUE

\* 2^e for an integer e
Pow2(e) ==
    IF e >= 0 THEN Fin(1, IPow(2, e), 1) ELSE Fin(1, 1, IPow(2, -e))

\* std::exp of a complex number x + i y, x in units of ln 2 and y in quarter
\* turns: std::polar(exp(x), y) = 2^x * (cos y, sin y).  The model draws only
\* arguments whose x and y are integers.
CExp(z) ==
    IF ~CIsFinite(z) THEN Cx(RNaN, RNaN)
    ELSE IF z.re.d # 1 \/ z.im.d # 1 THEN Unrepresentable
    ELSE LET rho == Pow2(z.re.s * z.re.n)
             q   == (z.im.s * z.im.n) % 4
             c   == IF q = 0 THEN 1 ELSE IF q = 2 THEN -1 ELSE 0
             sn  == IF q = 1 THEN 1 ELSE IF q = 3 THEN -1 ELSE 0
         IN  Cx(RMul(rho, Int2R(c)), RMul(rho, Int2R(sn)))

\* copysign(INFINITY, x)
InfLike(x) ==
    RInf(x.s)

\* copysign(isinf(x) ? 1.0 : 0.0, x)
Boxed(x) ==
    Fin(x.s, IF IsInf(x) THEN 1 ELSE 0, 1)

\* std::complex<double> division (the compiler's __divdc3): the quotient by
\* the textbook formula and, when both parts come out NaN, its recovery of
\* infinities and zeros.  The scaling by logb only avoids overflow.
CDiv(a, b) ==
    LET denom == RAdd(RMul(b.re, b.re), RMul(b.im, b.im))
        x == RDiv(RAdd(RMul(a.re, b.re), RMul(a.im, b.im)), denom)
        y == RDiv(RSub(RMul(a.im, b.re), RMul(a.re, b.im)), denom)
    IN  IF ~(IsNaN(x) /\ IsNaN(y)) THEN Cx(x, y)
        ELSE IF IsZero(denom) /\ (~IsNaN(a.re) \/ ~IsNaN(a.im))
        THEN Cx(RMul(InfLike(b.re), a.re), RMul(InfLike(b.re), a.im))
        ELSE IF (IsInf(a.re) \/ IsInf(a.im)) /\ IsFinite(b.re) /\ IsFinite(b.im)
        THEN LET ar == Boxed(a.re)
                 ai == Boxed(a.im)
             IN  Cx(RMul(RInf(1), RAdd(RMul(ar, b.re), RMul(ai, b.im))),
                    RMul(RInf(1), RSub(RMul(ai, b.re), RMul(ar, b.im))))
        ELSE IF (IsInf(b.re) \/ IsInf(b.im)) /\ IsFinite(a.re) /\ IsFinite(a.im)
        THEN LET br == Boxed(b.re)
                 bi == Boxed(b.im)
             IN  Cx(RMul(Int2R(0), RAdd(RMul(a.re, br), RMul(a.im, bi))),
                    RMul(Int2R(0), RSub(RMul(a.im, br), RMul(a.re, bi))))
        ELSE Cx(x, y)

\* std::pow(std::abs(z), 2.0): std::abs is hypot(re, im), infinite when a part
\* is infinite and NaN when a part is NaN otherwise
AbsSquared(z) ==
    IF IsInf(z.re) \/ IsInf(z.im) THEN RInf(1)
    ELSE IF IsNaN(z.re) \/ IsNaN(z.im) THEN RNaN
    ELSE RAdd(RMul(z.re, z.re), RMul(z.im, z.im))

(***************************************************************************)
(* 2x2 matrices of std::complex<double>, rows and columns 0..1.             *)
(***************************************************************************)
Idx == 0 .. 1

Mat(m00, m01, m10, m11) ==
    [i \in Idx |-> [j \in Idx |->
        IF i = 0 THEN (IF j = 0 THEN m00 ELSE m01)
                 ELSE (IF j = 0 THEN m10 ELSE m11)]]

\* damm::zeros
zeros ==
    Mat(CZero, CZero, CZero, CZero)

\* damm::identity
identity ==
    Mat(COne, CZero, CZero, COne)

\* damm::multiply(A, B, C, 2, 2, 2): accumulates the product A * B into C
\* (every call of the repository clears C with damm::zeros first)
multiply(A, B, C) ==
    [i \in Idx |-> [j \in Idx |->
        CAdd(CAdd(C[i][j], CMul(A[i][0], B[0][j])), CMul(A[i][1], B[1][j]))]]

\* numeric equality of matrices, entry by entry
MatEq(A, B) ==
    \A i \in Idx : \A j \in Idx : CEq(A[i][j], B[i][j])

MatIsFinite(A) ==
    \A i \in Idx : \A j \in Idx : CIsFinite(A[i][j])

(***************************************************************************)
(* matrix_power (tmm.h): binary exponentiation.  The result record carries  *)
(* TN, whether the input T was read, and the number of damm::multiply calls *)
(***************************************************************************)
\* the loop with the squaring of base left out when the low bit is set
RECURSIVE matrix_power_loop_nosquare(_, _, _, _)
matrix_power_loop_nosquare(result, base, N, mults) ==
    IF N > 0
    THEN LET odd  == (N % 2) = 1
             res1 == IF odd THEN multiply(result, base, zeros) ELSE result
             N1   == N \div 2
             sq   == N1 > 0 /\ ~odd
             bas1 == IF sq THEN multiply(base, base, zeros) ELSE base
         IN  matrix_power_loop_nosquare(res1, bas1, N1,
                 mults + (IF odd THEN 1 ELSE 0) + (IF sq THEN 1 ELSE 0))
    ELSE [TN |-> result, multiplies |-> mults]

\* the loop stopped one halving early: while (N > 1)
RECURSIVE matrix_power_loop_gt1(_, _, _, _)
matrix_power_loop_gt1(result, base, N, mults) ==
    IF N > 1
    THEN LET odd  == (N % 2) = 1
             res1 == IF odd THEN multiply(result, base, zeros) ELSE result
             N1   == N \div 2
             sq   == N1 > 0
             bas1 == IF sq THEN multiply(base, base, zeros) ELSE base
         IN  matrix_power_loop_gt1(res1, bas1, N1,
                 mults + (IF odd THEN 1 ELSE 0) + (IF sq THEN 1 ELSE 0))
    ELSE [TN |-> result, multiplies |-> mults]

\* while (N > 0) { if (N & 1) result *= base; N >>= 1; if (N > 0) base *= base; }
RECURSIVE matrix_power_loop(_, _, _, _)
matrix_power_loop(result, base, N, mults) ==
    IF N > 0
    THEN LET odd  == (N % 2) = 1
             res1 == IF odd THEN multiply(result, base, zeros) ELSE result
             N1   == N \div 2
             sq   == N1 > 0
             bas1 == IF sq THEN multiply(base, base, zeros) ELSE base
         IN  matrix_power_loop(res1, bas1, N1,
                 mults + (IF odd THEN 1 ELSE 0) + (IF sq THEN 1 ELSE 0))
    ELSE [TN |-> result, multiplies |-> mults]

\* matrix_power with the copy of T into base moved before the N == 0 test,
\* and the copy returned for N == 0
matrix_power_copyfirst(T, N) ==
    LET base == T
    IN  IF N = 0
        THEN [TN |-> base, readsT |-> TRUE, multiplies |-> 0]
        ELSE LET r == matrix_power_loop(identity, base, N, 0)
             IN  [TN |-> r.TN, readsT |-> TRUE, multiplies |-> r.multiplies]

\* matrix_power whose result buffer is cleared instead of set to the identity
matrix_power_noidentity(T, N) ==
    LET result == zeros
    IN  IF N = 0
        THEN [TN |-> result, readsT |-> FALSE, multiplies |-> 0]
        ELSE LET base == T
                 r    == matrix_power_loop(result, base, N, 0)
             IN  [TN |-> r.TN, readsT |-> TRUE, multiplies |-> r.multiplies]

matrix_power(T, N) ==
    LET result == identity
    IN  IF N = 0
        THEN [TN |-> result, readsT |-> FALSE, multiplies |-> 0]
        ELSE LET base == T
                 r    == matrix_power_loop(result, base, N, 0)
             IN  [TN |-> r.TN, readsT |-> TRUE, multiplies |-> r.multiplies]

(***************************************************************************)
(* Layer models (class TMM of tmm.h).                                       *)
(***************************************************************************)
\* M_PI, in quarter turns
pi ==
    Int2R(2)

\* beta = k0 * neff - i * alpha
beta(neff, wavelength, loss) ==
    LET k0    == RDiv(RMul(Int2R(2), pi), wavelength)
        alpha == RDiv(loss, Int2R(2))
    IN  Cx(RMul(k0, neff), RNeg(alpha))

homogeneous_layer(wavelength, length, neff, loss) ==
    LET b     == beta(neff, wavelength, loss)
        phase == CScale(b, length)
    IN  Mat(CExp(CMul(CInt(0, 1), phase)), CInt(0, 0),
            CInt(0, 0), CExp(CMul(CInt(0, -1), phase)))

index_step(n1, n2) ==
    LET a == CReal(RDiv(RAdd(n1, n2), RMul(Int2R(2), RSqrt(RMul(n1, n2)))))
        b == CReal(RDiv(RSub(n1, n2), RMul(Int2R(2), RSqrt(RMul(n1, n2)))))
    IN  Mat(a, b, b, a)

\* R = |S10 / S00|^2, T = |1 / S00|^2; the function has no throw statement
scattering_coefficients_db(S) ==
    LET S00 == S[0][0]
        S10 == S[1][0]
    IN  [R |-> AbsSquared(CDiv(S10, S00)),
         T |-> AbsSquared(CDiv(CReal(Int2R(1)), S00))]

(***************************************************************************)
(* Bragg grating (bragg.h, bragg.cc).  self is the object: its fields       *)
(* _period, _duty_cycle and _N.                                             *)
(***************************************************************************)
\* Bragg::Bragg: the three fields are stored as given
Bragg(period, duty_cycle, N) ==
    [period |-> period, duty_cycle |-> duty_cycle, N |-> N]

\* transfer_matrix whose reused buffer T_11 is not cleared before the second
\* product is accumulated into it
transfer_matrix_noclear(self, wavelength, n1, n2, loss) ==
    LET l1    == RMul(self.period, self.duty_cycle)
        l2    == RMul(self.period, RSub(Int2R(1), self.duty_cycle))
        T_11  == homogeneous_layer(wavelength, l1, n1, loss)
        T_12  == index_step(n1, n2)
        T_22  == homogeneous_layer(wavelength, l2, n2, loss)
        T_21  == index_step(n2, n1)
        work  == multiply(T_11, T_12, zeros)
        T_11r == multiply(work, T_22, T_11)
        Tp    == multiply(T_11r, T_21, zeros)
    IN  [Tp |-> Tp, T_12 |-> T_12, T_21 |-> T_21]

\* Bragg::transfer_matrix: Tp, and the two index_step matrices it built.
\* T_11r is the buffer T_11 after it is cleared and reused for work * T_22.
transfer_matrix(self, wavelength, n1, n2, loss) ==
    LET l1    == RMul(self.period, self.duty_cycle)
        l2    == RMul(self.period, RSub(Int2R(1), self.duty_cycle))
        T_11  == homogeneous_layer(wavelength, l1, n1, loss)
        T_12  == index_step(n1, n2)
        T_22  == homogeneous_layer(wavelength, l2, n2, loss)
        T_21  == index_step(n2, n1)
        work  == multiply(T_11, T_12, zeros)
        T_11r == multiply(work, T_22, zeros)
        Tp    == multiply(T_11r, T_21, zeros)
    IN  [Tp |-> Tp, T_12 |-> T_12, T_21 |-> T_21]

\* the implicit conversion of the double _N to the size_t parameter N of
\* matrix_power: truncation toward zero; undefined behaviour when the
\* truncated value is no size_t (N <= -1, NaN, infinite), modelled as any count
size_t_of(x) ==
    IF IsFinite(x) /\ (x.s = 1 \/ x.n < x.d)
    THEN {x.n \div x.d}
    ELSE 0 .. MaxUB

\* Bragg::scattering_matrix: the possible outcomes, one per converted count
scattering_matrix(self, wavelength, n1, n2, loss) ==
    LET tm == transfer_matrix(self, wavelength, n1, n2, loss)
    IN  {LET pw == matrix_power(tm.Tp, k)
         IN  tm @@ [count |-> k, S |-> pw.TN, readsTp |-> pw.readsT]
            : k \in size_t_of(self.N)}

\* Bragg::scattering_coefficients: the possible outcomes
scattering_coefficients(self, wavelength, n1, n2, loss) ==
    {sm @@ scattering_coefficients_db(sm.S)
        : sm \in scattering_matrix(self, wavelength, n1, n2, loss)}

(***************************************************************************)
(* Compact model library (cml.h).  A std::optional is a sequence of at most *)
(* one element, a std::vector a sequence (element i of the vector is        *)
(* element i + 1 of the sequence).  A read past the end of a vector is      *)
(* undefined behaviour: it yields some double (garbage) or ends the process *)
(* (crash); which of the two, and which double, is drawn by the caller of   *)
(* these operators.                                                         *)
(***************************************************************************)
None ==
    <<>>

Some(v) ==
    <<v>>

Has(opt) ==
    Len(opt) = 1

Value(opt) ==
    opt[1]

\* the reduction operation O of taylor_expansion<O>
Reduce(O, y, t) ==
    IF O = "minus" THEN RSub(y, t) ELSE RAdd(y, t)

\* std::pow(dx, i) for the size_t i of the loop
RECURSIVE RPow(_, _)
RPow(x, i) ==
    IF i = 0 THEN Int2R(1) ELSE RMul(RPow(x, i - 1), x)

\* for (size_t i = 1; i < coeffs.size(); ++i) y = O{}(y, coeffs[i] * pow(dx, i))
RECURSIVE taylor_loop(_, _, _, _, _)
taylor_loop(O, coeffs, dx, i, y) ==
    IF i < Len(coeffs)
    THEN taylor_loop(O, coeffs, dx, i + 1,
                     Reduce(O, y, RMul(coeffs[i + 1], RPow(dx, i))))
    ELSE y

\* taylor_expansion whose terms are all added, whatever the reduction O is
taylor_expansion_plus(O, model, x, garbage) ==
    LET dx  == RSub(x, model.x0)
        oob == Len(model.coeffs) = 0
        y   == IF oob THEN garbage ELSE model.coeffs[1]
    IN  [value |-> taylor_loop("plus", model.coeffs, dx, 1, y), oob |-> oob]

\* taylor_expansion<O>::operator(): the value, and whether coeffs[0] was read
\* past the end of an empty vector (garbage is what that read yields)
taylor_expansion(O, model, x, garbage) ==
    LET dx  == RSub(x, model.x0)
        oob == Len(model.coeffs) = 0
        y   == IF oob THEN garbage ELSE model.coeffs[1]
    IN  [value |-> taylor_loop(O, model.coeffs, dx, 1, y), oob |-> oob]

\* cml::operator() with the wavelength term assigned to prop (prop = ...)
\* instead of added to it (prop += ...)
cml_eval_assignterm(model, l, w, i, garbage) ==
    LET prop0 == Int2R(0)
        prop1 == IF Has(model.constant) THEN Value(model.constant) ELSE prop0
        oobS  == Has(model.sampled) /\ i >= Len(Value(model.sampled))
        prop2 == IF Has(model.sampled)
                 THEN (IF oobS THEN garbage ELSE Value(model.sampled)[i + 1])
                 ELSE prop1
        wl    == IF Has(model.wavelength_model)
                 THEN taylor_expansion("minus", Value(model.wavelength_model), l, garbage)
                 ELSE [value |-> Int2R(0), oob |-> FALSE]
        prop3 == IF Has(model.wavelength_model) THEN wl.value ELSE prop2
        wd    == IF Has(model.width_model)
                 THEN taylor_expansion("plus", Value(model.width_model), w, garbage)
                 ELSE [value |-> Int2R(0), oob |-> FALSE]
        prop4 == IF Has(model.width_model) THEN RAdd(prop3, wd.value) ELSE prop3
    IN  [value |-> prop4, oob |-> oobS \/ wl.oob \/ wd.oob, err |-> "none"]

\* cml::operator()(l, w, i): the value returned, whether a read was past the
\* end of a vector, and the error signalled (the function has no throw
\* statement and no test of i)
cml_eval(model, l, w, i, garbage) ==
    LET prop0 == Int2R(0)
        prop1 == IF Has(model.constant) THEN Value(model.constant) ELSE prop0
        oobS  == Has(model.sampled) /\ i >= Len(Value(model.sampled))
        prop2 == IF Has(model.sampled)
                 THEN (IF oobS THEN garbage ELSE Value(model.sampled)[i + 1])
                 ELSE prop1
        wl    == IF Has(model.wavelength_model)
                 THEN taylor_expansion("minus", Value(model.wavelength_model), l, garbage)
                 ELSE [value |-> Int2R(0), oob |-> FALSE]
        prop3 == IF Has(model.wavelength_model) THEN RAdd(prop2, wl.value) ELSE prop2
        wd    == IF Has(model.width_model)
                 THEN taylor_expansion("plus", Value(model.width_model), w, garbage)
                 ELSE [value |-> Int2R(0), oob |-> FALSE]
        prop4 == IF Has(model.width_model) THEN RAdd(prop3, wd.value) ELSE prop3
    IN  [value |-> prop4, oob |-> oobS \/ wl.oob \/ wd.oob, err |-> "none"]

\* the doubles a read past the end of a vector is taken to yield
Garbage ==
    {Int2R(0), Int2R(4)}

\* the outcomes of cml::operator(): a read past the end either yields garbage
\* and the call returns, or ends the process
cml_outcomes(model, l, w, i) ==
    LET det == cml_eval(model, l, w, i, Int2R(0))
    IN  IF det.oob
        THEN {cml_eval(model, l, w, i, g) @@ [crash |-> FALSE] : g \in Garbage}
             \cup {[value |-> RNaN, oob |-> TRUE, err |-> "none", crash |-> TRUE]}
        ELSE {det @@ [crash |-> FALSE]}

(***************************************************************************)
(* The matrix algebra harness: T and two exponents are drawn, and the three *)
(* powers and the product of the first two are computed in any order.       *)
(***************************************************************************)
NoCall ==
    [TN |-> zeros, readsT |-> FALSE, multiplies |-> -1]

\* entries of the matrices drawn for the harness
PowerEntries ==
    {CInt(0, 0), CInt(1, 0), CInt(-1, 1)}

PowerMatrices ==
    {Mat(e00, e01, e10, e11) : e00 \in PowerEntries, e01 \in PowerEntries,
                               e10 \in PowerEntries, e11 \in PowerEntries}

PowerIdle ==
    /\ pw_T = zeros
    /\ pw_a = 0
    /\ pw_b = 0
    /\ pw_pa = NoCall
    /\ pw_pb = NoCall
    /\ pw_pab = NoCall
    /\ pw_prod = NoCall

PowerInit ==
    /\ pw_T \in PowerMatrices
    /\ pw_a \in 0 .. MaxN
    /\ pw_b \in 0 .. MaxN
    /\ pw_pa = NoCall
    /\ pw_pb = NoCall
    /\ pw_pab = NoCall
    /\ pw_prod = NoCall

PowerA ==
    /\ pw_pa = NoCall
    /\ pw_pa' = matrix_power(pw_T, pw_a)
    /\ UNCHANGED <<pw_T, pw_a, pw_b, pw_pb, pw_pab, pw_prod>>
    /\ UNCHANGED <<brVars, dbVars, cmVars, swVars, mnVars, bsVars, lpVars>>

PowerB ==
    /\ pw_pb = NoCall
    /\ pw_pb' = matrix_power(pw_T, pw_b)
    /\ UNCHANGED <<pw_T, pw_a, pw_b, pw_pa, pw_pab, pw_prod>>
    /\ UNCHANGED <<brVars, dbVars, cmVars, swVars, mnVars, bsVars, lpVars>>

PowerAB ==
    /\ pw_pab = NoCall
    /\ pw_pab' = matrix_power(pw_T, pw_a + pw_b)
    /\ UNCHANGED <<pw_T, pw_a, pw_b, pw_pa, pw_pb, pw_prod>>
    /\ UNCHANGED <<brVars, dbVars, cmVars, swVars, mnVars, bsVars, lpVars>>

PowerProduct ==
    /\ pw_pa # NoCall
    /\ pw_pb # NoCall
    /\ pw_prod = NoCall
    /\ pw_prod' = [TN |-> multiply(pw_pa.TN, pw_pb.TN, zeros),
                   readsT |-> FALSE, multiplies |-> 1]
    /\ UNCHANGED <<pw_T, pw_a, pw_b, pw_pa, pw_pb, pw_pab>>
    /\ UNCHANGED <<brVars, dbVars, cmVars, swVars, mnVars, bsVars, lpVars>>

PowerNext ==
    \/ PowerA
    \/ PowerB
    \/ PowerAB
    \/ PowerProduct

(***************************************************************************)
(* The Bragg harness: a grating is constructed, and its member functions    *)
(* are called, any number of times in any order, with the drawn arguments.  *)
(* None of the three functions, nor anything they call, has a throw         *)
(* statement or a test of its arguments: no call signals an error.          *)
(***************************************************************************)
BraggPeriods ==
    {Int2R(2)}

BraggDutyCycles ==
    {Int2R(0), Rat(1, 2), Int2R(1)}

\* period counts: integers, a fraction, negative values
BraggNs ==
    {Int2R(0), Int2R(1), Int2R(2), Rat(5, 2), Int2R(-1), Rat(-1, 2)}

Wavelengths ==
    {Int2R(2), Int2R(4)}

\* refractive indices: the products of two are squares, zero or negative
Indices ==
    {Int2R(-1), Int2R(0), Int2R(1), Int2R(4)}

Losses ==
    {Int2R(0), Int2R(2)}

BrNone ==
    [Tp |-> zeros, T_12 |-> zeros, T_21 |-> zeros, count |-> -1, S |-> zeros,
     readsTp |-> FALSE, R |-> RNaN, T |-> RNaN]

BraggIdle ==
    /\ br_self = Bragg(Int2R(0), Int2R(0), Int2R(0))
    /\ br_args = [wavelength |-> Int2R(0), n1 |-> Int2R(0), n2 |-> Int2R(0),
                  loss |-> Int2R(0)]
    /\ br_call = "none"
    /\ br_ret = BrNone
    /\ br_err = "none"

\* a lossy grating is drawn with at most one period: the entries of the
\* higher powers of a lossy period matrix leave the integers TLC computes with
Drawn(self, args) ==
    IsZero(args.loss) \/ self.N \in {Int2R(0), Int2R(1), Rat(-1, 2)}

BraggInit ==
    /\ br_self \in {Bragg(p, dc, N) : p \in BraggPeriods, dc \in BraggDutyCycles,
                                      N \in BraggNs}
    /\ br_args \in [wavelength : Wavelengths, n1 : Indices, n2 : Indices,
                    loss : Losses]
    /\ Drawn(br_self, br_args)
    /\ br_call = "none"
    /\ br_ret = BrNone
    /\ br_err = "none"

TransferMatrix ==
    /\ br_call' = "transfer_matrix"
    /\ br_ret' = transfer_matrix(br_self, br_args.wavelength, br_args.n1,
                                 br_args.n2, br_args.loss) @@ BrNone
    /\ br_err' = "none"
    /\ UNCHANGED <<br_self, br_args>>
    /\ UNCHANGED <<pwVars, dbVars, cmVars, swVars, mnVars, bsVars, lpVars>>

ScatteringMatrix ==
    /\ \E r \in scattering_matrix(br_self, br_args.wavelength, br_args.n1,
                                   br_args.n2, br_args.loss) :
            br_ret' = r @@ BrNone
    /\ br_call' = "scattering_matrix"
    /\ br_err' = "none"
    /\ UNCHANGED <<br_self, br_args>>
    /\ UNCHANGED <<pwVars, dbVars, cmVars, swVars, mnVars, bsVars, lpVars>>

ScatteringCoefficients ==
    /\ \E r \in scattering_coefficients(br_self, br_args.wavelength, br_args.n1,
                                         br_args.n2, br_args.loss) :
            br_ret' = r @@ BrNone
    /\ br_call' = "scattering_coefficients"
    /\ br_err' = "none"
    /\ UNCHANGED <<br_self, br_args>>
    /\ UNCHANGED <<pwVars, dbVars, cmVars, swVars, mnVars, bsVars, lpVars>>

BraggNext ==
    \/ TransferMatrix
    \/ ScatteringMatrix
    \/ ScatteringCoefficients

(***************************************************************************)
(* The extraction harness: scattering_coefficients_db on a drawn matrix.    *)
(***************************************************************************)
DbEntries ==
    {CInt(0, 0), CInt(1, 0), CInt(0, 2), CInt(-1, 1)}

DbMatrices ==
    {Mat(e00, e01, e10, e11) : e00 \in DbEntries, e01 \in DbEntries,
                               e10 \in DbEntries, e11 \in DbEntries}

DbNone ==
    [R |-> RNaN, T |-> RNaN]

DbIdle ==
    /\ db_S = zeros
    /\ db_call = "none"
    /\ db_ret = DbNone
    /\ db_err = "none"

DbInit ==
    /\ db_S \in DbMatrices
    /\ db_call = "none"
    /\ db_ret = DbNone
    /\ db_err = "none"

ScatteringCoefficientsDb ==
    /\ db_call = "none"
    /\ db_call' = "scattering_coefficients_db"
    /\ db_ret' = scattering_coefficients_db(db_S)
    /\ db_err' = "none"
    /\ UNCHANGED db_S
    /\ UNCHANGED <<pwVars, brVars, cmVars, swVars, mnVars, bsVars, lpVars>>

DbNext ==
    ScatteringCoefficientsDb

(***************************************************************************)
(* The compact model harness: operator() on a drawn model and arguments.    *)
(***************************************************************************)
\* a cml of the four optional representations
Cml(constant, sampled, wavelength_model, width_model) ==
    [constant |-> constant, sampled |-> sampled,
     wavelength_model |-> wavelength_model, width_model |-> width_model]

Taylor(x0, coeffs) ==
    [x0 |-> x0, coeffs |-> coeffs]

\* the sample vectors drawn: two or more samples, as the --n1 option builds them
SampleVectors ==
    {[k \in 1 .. len |-> Int2R(k * k)] : len \in 2 .. MaxSamples}

CmlConstants ==
    {None, Some(Int2R(4))}

CmlSampled ==
    {None} \cup {Some(v) : v \in SampleVectors}

CmlWavelengthModels ==
    {None, Some(Taylor(Int2R(1), <<>>)),
     Some(Taylor(Int2R(1), <<Int2R(2)>>)),
     Some(Taylor(Int2R(1), <<Int2R(2), Int2R(3), Int2R(-1)>>))}

CmlWidthModels ==
    {None, Some(Taylor(Int2R(0), <<>>)),
     Some(Taylor(Int2R(2), <<Int2R(5), Rat(1, 2)>>))}

\* the models drawn: constant and sampled are never both present
CmlModels ==
    {m \in [constant : CmlConstants, sampled : CmlSampled,
            wavelength_model : CmlWavelengthModels,
            width_model : CmlWidthModels] :
        ~(Has(m.constant) /\ Has(m.sampled))}

CmNone ==
    [value |-> RNaN, oob |-> FALSE, err |-> "none", crash |-> FALSE]

CmlIdle ==
    /\ cm_model = Cml(None, None, None, None)
    /\ cm_args = [l |-> Int2R(0), w |-> Int2R(0), i |-> 0]
    /\ cm_call = "none"
    /\ cm_ret = CmNone

CmlInit ==
    /\ cm_model \in CmlModels
    /\ cm_args \in [l : {Int2R(0), Int2R(1), Int2R(3)}, w : {Int2R(0), Int2R(2), Int2R(3)},
                   i : 0 .. MaxSamples]
    /\ cm_call = "none"
    /\ cm_ret = CmNone

Evaluate ==
    /\ cm_call = "none"
    /\ cm_call' = "evaluate"
    /\ cm_ret' \in cml_outcomes(cm_model, cm_args.l, cm_args.w, cm_args.i)
    /\ UNCHANGED <<cm_model, cm_args>>
    /\ UNCHANGED <<pwVars, brVars, dbVars, swVars, mnVars, bsVars, lpVars>>

CmlNext ==
    Evaluate

(***************************************************************************)
(* The sweep of main (tmm.cc): six nested range-for loops over periods,     *)
(* duty cycles, period counts, the two width lists and the wavelengths.     *)
(* ctx is the control structure once parsing and validation have passed:    *)
(* its lists are not empty and its three models are set.  One step is one   *)
(* iteration of the innermost (wavelength) loop.                            *)
(***************************************************************************)
\* const auto& w1_list = sweep_width1 ? ctx->width1 : std::vector<double>{0.0}
w1_list(ctx) ==
    IF Len(ctx.width1) # 0 THEN ctx.width1 ELSE <<Int2R(0)>>

w2_list(ctx) ==
    IF Len(ctx.width2) # 0 THEN ctx.width2 ELSE <<Int2R(0)>>

\* the first iteration of every loop
sweep_first ==
    [p |-> 1, d |-> 1, n |-> 1, a |-> 1, b |-> 1, k |-> 1]

\* no iteration is left: the six loops have ended
sweep_end ==
    [p |-> 0, d |-> 0, n |-> 0, a |-> 0, b |-> 0, k |-> 0]

\* the iteration that follows pos, innermost loop first
sweep_advance(ctx, pos) ==
    IF pos.k < Len(ctx.wavelengths) THEN [pos EXCEPT !.k = @ + 1]
    ELSE IF pos.b < Len(w2_list(ctx)) THEN [pos EXCEPT !.b = @ + 1, !.k = 1]
    ELSE IF pos.a < Len(w1_list(ctx))
         THEN [pos EXCEPT !.a = @ + 1, !.b = 1, !.k = 1]
    ELSE IF pos.n < Len(ctx.Ns)
         THEN [pos EXCEPT !.n = @ + 1, !.a = 1, !.b = 1, !.k = 1]
    ELSE IF pos.d < Len(ctx.duty_cycles)
         THEN [pos EXCEPT !.d = @ + 1, !.n = 1, !.a = 1, !.b = 1, !.k = 1]
    ELSE IF pos.p < Len(ctx.periods)
         THEN [sweep_first EXCEPT !.p = pos.p + 1]
    ELSE sweep_end

\* idx after the iteration at pos: idx++ at the end of the body, and
\* size_t idx = 0 before the wavelength loop is entered again
sweep_idx(ctx, pos, idx) ==
    IF pos.k < Len(ctx.wavelengths) THEN idx + 1 ELSE 0

\* whether the group delay is analysed in an iteration
analyze_group_delay(ctx) ==
    /\ ~IsZero(ctx.dl)
    /\ ~Has(ctx.n1.sampled)
    /\ ~Has(ctx.n2.sampled)
    /\ ~Has(ctx.loss.sampled)

\* the evaluations of n1 and n2 at the backward and the forward wavelength:
\* whether one of them reads past the end of a vector
group_delay_oob(ctx, wavelength, w1, w2, idx) ==
    \E dw \in {RSub(wavelength, ctx.dl), RAdd(wavelength, ctx.dl)} :
        \/ cml_eval(ctx.n1, dw, w1, idx, Int2R(0)).oob
        \/ cml_eval(ctx.n2, dw, w2, idx, Int2R(0)).oob

\* the iteration ended the process at a read past the end of a vector
sweep_crash ==
    [crash |-> TRUE, oob |-> TRUE, idx |-> 0, n1_val |-> RNaN,
     n2_val |-> RNaN, loss_val |-> RNaN, R |-> RNaN, T |-> RNaN,
     gdelay |-> "none"]

\* the body of the wavelength loop at pos: its possible outcomes.  The value
\* of group_delay is left open ("group_delay"): the function is not part of
\* the sources.
sweep_body(ctx, pos, idx) ==
    LET grating    == Bragg(ctx.periods[pos.p], ctx.duty_cycles[pos.d], ctx.Ns[pos.n])
        w1         == w1_list(ctx)[pos.a]
        w2         == w2_list(ctx)[pos.b]
        wavelength == ctx.wavelengths[pos.k]
        gd         == analyze_group_delay(ctx)
        gdoob      == gd /\ group_delay_oob(ctx, wavelength, w1, w2, idx)
        evals      == {<<e1, e2, e3>> :
                          e1 \in cml_outcomes(ctx.n1, wavelength, w1, idx),
                          e2 \in cml_outcomes(ctx.n2, wavelength, w2, idx),
                          e3 \in cml_outcomes(ctx.loss, wavelength, Int2R(0), idx)}
    IN  UNION {
            IF e[1].crash \/ e[2].crash \/ e[3].crash
            THEN {sweep_crash}
            ELSE {[crash |-> FALSE,
                   oob |-> e[1].oob \/ e[2].oob \/ e[3].oob \/ gdoob,
                   idx |-> idx, n1_val |-> e[1].value, n2_val |-> e[2].value,
                   loss_val |-> e[3].value, R |-> sc.R, T |-> sc.T,
                   gdelay |-> IF gd THEN "group_delay" ELSE "0"]
                     : sc \in scattering_coefficients(grating, wavelength,
                                  e[1].value, e[2].value, e[3].value)}
                \cup (IF gdoob THEN {sweep_crash} ELSE {})
          : e \in evals}

\* the models drawn for n1 and for n2: as --n1 and --n1-model build them
SweepIndexModels ==
    {Cml(Some(Int2R(4)), None, None, None),
     Cml(None, Some(<<Int2R(1), Int2R(4)>>), None, None),
     Cml(None, Some(<<Int2R(4), Int2R(1), Int2R(4)>>), None, None),
     Cml(None, None, Some(Taylor(Int2R(2), <<Int2R(1)>>)), None),
     Cml(None, None, Some(Taylor(Int2R(2), <<>>)), None)}

SweepLowIndexModels ==
    {Cml(Some(Int2R(1)), None, None, None),
     Cml(None, Some(<<Int2R(1), Int2R(4)>>), None, None),
     Cml(None, None, Some(Taylor(Int2R(2), <<Int2R(1)>>)), None)}

\* the models drawn for the loss
SweepLossModels ==
    {Cml(Some(Int2R(0)), None, None, None),
     Cml(None, Some(<<Int2R(0), Int2R(0)>>), None, None)}

\* the control structures drawn
SweepContexts ==
    [periods : {<<Int2R(2)>>}, duty_cycles : {<<Rat(1, 2)>>},
     Ns : {<<Int2R(1)>>, <<Int2R(0), Int2R(1)>>},
     wavelengths : {<<Int2R(4)>>, <<Int2R(4), Int2R(2)>>,
                    <<Int2R(4), Int2R(2), Int2R(4)>>},
     width1 : {<<>>, <<Int2R(2), Int2R(3)>>},
     width2 : {<<>>, <<Int2R(2)>>},
     n1 : SweepIndexModels, n2 : SweepLowIndexModels, loss : SweepLossModels,
     dl : {Int2R(0), Int2R(2)}]

SwNone ==
    [crash |-> FALSE, oob |-> FALSE, idx |-> 0, n1_val |-> RNaN,
     n2_val |-> RNaN, loss_val |-> RNaN, R |-> RNaN, T |-> RNaN,
     gdelay |-> "none"]

SweepIdle ==
    /\ sw_ctx = [periods |-> <<>>, duty_cycles |-> <<>>, Ns |-> <<>>,
                 wavelengths |-> <<>>, width1 |-> <<>>, width2 |-> <<>>,
                 n1 |-> Cml(None, None, None, None),
                 n2 |-> Cml(None, None, None, None),
                 loss |-> Cml(None, None, None, None), dl |-> Int2R(0)]
    /\ sw_pc = "idle"
    /\ sw_pos = sweep_end
    /\ sw_idx = 0
    /\ sw_row = SwNone
    /\ sw_rows = 0
    /\ sw_oob = FALSE
    /\ sw_err = "none"

\* the try block of the simulation is entered: the header is printed
SweepInit ==
    /\ sw_ctx \in SweepContexts
    /\ sw_pc = "sweep"
    /\ sw_pos = sweep_first
    /\ sw_idx = 0
    /\ sw_row = SwNone
    /\ sw_rows = 0
    /\ sw_oob = FALSE
    /\ sw_err = "none"

\* one iteration of the wavelength loop: the three evaluations, the
\* scattering coefficients, the row printed, idx++, and the loops advanced.
\* Nothing in the body throws, so main's handler is never entered.
SweepRow ==
    /\ sw_pc = "sweep"
    /\ \E r \in sweep_body(sw_ctx, sw_pos, sw_idx) :
        /\ sw_oob' = (sw_oob \/ r.oob)
        /\ IF r.crash
           THEN /\ sw_pc' = "crashed"
                /\ UNCHANGED <<sw_pos, sw_idx, sw_row, sw_rows>>
           ELSE /\ sw_row' = r
                /\ sw_rows' = sw_rows + 1
                /\ sw_pos' = sweep_advance(sw_ctx, sw_pos)
                /\ sw_idx' = sweep_idx(sw_ctx, sw_pos, sw_idx)
                /\ sw_pc' = IF sweep_advance(sw_ctx, sw_pos) = sweep_end
                            THEN "done" ELSE "sweep"
    /\ UNCHANGED <<sw_ctx, sw_err>>
    /\ UNCHANGED <<pwVars, brVars, dbVars, cmVars, mnVars, bsVars, lpVars>>

SweepNext ==
    SweepRow

(***************************************************************************)
(* The command line of main (tmm.cc).  An option's argument is the list of  *)
(* doubles parse_numeric reads from it.  The model pointers n1, n2 and loss *)
(* of ctx are optional values: None is the null pointer.                    *)
(***************************************************************************)
\* parse_numeric(str, result, min, max): the list read, or the exception
\* thrown at the first value below min or above max
parse_numeric(values, bounded, min, max) ==
    LET bad == {k \in 1 .. Len(values) :
                   bounded /\ (RLess(values[k], min) \/ RLess(max, values[k]))}
    IN  IF bad # {}
        THEN [threw |-> TRUE,
              result |-> SubSeq(values, 1, (CHOOSE k \in bad : \A j \in bad : k <= j) - 1)]
        ELSE [threw |-> FALSE, result |-> values]

\* std::vector<double>(v.begin() + 1, v.end())
coeffs_of(v) ==
    SubSeq(v, 2, Len(v))

\* --n1, --n2, --loss that set a field of the cml the pointer already holds
opt_values_keep(ptr, v) ==
    LET old == IF Has(ptr) THEN Value(ptr) ELSE Cml(None, None, None, None)
    IN  IF Len(v) = 1 THEN Some([old EXCEPT !.constant = Some(v[1])])
        ELSE IF Len(v) > 1 THEN Some([old EXCEPT !.sampled = Some(v)])
        ELSE ptr

\* cases 1, 2 and 'a' (--n1, --n2, --loss): one value makes a new constant
\* cml, several values a new sampled cml, no value leaves the pointer alone
opt_values(ptr, v) ==
    IF Len(v) = 1 THEN Some(Cml(Some(v[1]), None, None, None))
    ELSE IF Len(v) > 1 THEN Some(Cml(None, Some(v), None, None))
    ELSE ptr

\* --n1-model, --n2-model that always make a new cml
opt_model_overwrite(ptr, v) ==
    IF Len(v) = 0 THEN ptr
    ELSE Some(Cml(None, None, Some(Taylor(v[1], coeffs_of(v))), None))

\* cases 3 and 4 (--n1-model, --n2-model): the wavelength model is set in a
\* cml that has a width model, else a new cml is made
opt_model(ptr, v) ==
    IF Len(v) = 0 THEN ptr
    ELSE IF Has(ptr) /\ Has(Value(ptr).width_model)
    THEN Some([Value(ptr) EXCEPT
                  !.wavelength_model = Some(Taylor(v[1], coeffs_of(v)))])
    ELSE Some(Cml(None, None, Some(Taylor(v[1], coeffs_of(v))), None))

\* case 5 (--loss-model): a new cml with the wavelength model
opt_loss_model(ptr, v) ==
    IF Len(v) = 0 THEN ptr
    ELSE Some(Cml(None, None, Some(Taylor(v[1], coeffs_of(v))), None))

\* cases 8 and 9 (--n1-width-model, --n2-width-model): the width model is set
\* in a cml that has a wavelength model, else a new cml is made
opt_width_model(ptr, v) ==
    IF Len(v) = 0 THEN ptr
    ELSE IF Has(ptr) /\ Has(Value(ptr).wavelength_model)
    THEN Some([Value(ptr) EXCEPT
                  !.width_model = Some(Taylor(v[1], coeffs_of(v)))])
    ELSE Some(Cml(None, None, None, Some(Taylor(v[1], coeffs_of(v)))))

\* the arguments drawn for the options
ValueLists ==
    {<<Int2R(4)>>, <<Int2R(1), Int2R(4)>>}

LossLists ==
    {<<>>, <<Int2R(0)>>, <<Int2R(0), Int2R(0)>>}

ModelLists ==
    {<<>>, <<Int2R(2)>>, <<Int2R(2), Int2R(1)>>}

WidthModelLists ==
    {<<>>, <<Int2R(2), Int2R(0)>>, <<Int2R(2), Int2R(0), Int2R(3)>>}

LowModelLists ==
    {<<Int2R(2), Int2R(1)>>, <<Int2R(2), Int2R(4)>>}

LowWidthModelLists ==
    {<<Int2R(2), Int2R(0)>>}

DutyCycleLists ==
    {<<Rat(1, 2)>>, <<Int2R(2)>>}

\* no model option given yet
NoneGiven ==
    [wavelength_model |-> None, width_model |-> None]

\* std::make_unique<ctl>(): empty lists, null model pointers, device BRAGG.
\* dl is used by main although ctl.h declares no such field: a value-
\* initialised double.
ctl ==
    [n1 |-> None, n2 |-> None, loss |-> None,
     width1 |-> <<>>, width2 |-> <<>>, periods |-> <<>>,
     duty_cycles |-> <<>>, Ns |-> <<>>, wavelengths |-> <<>>,
     device |-> "BRAGG", dl |-> Int2R(0)]

MainIdle ==
    /\ mn_ctx = ctl
    /\ mn_given = [n1 |-> NoneGiven, n2 |-> NoneGiven]
    /\ mn_pc = "idle"
    /\ mn_msg = "none"
    /\ mn_warn = {}
    /\ mn_null = FALSE

MainInit ==
    /\ mn_ctx = ctl
    /\ mn_given = [n1 |-> NoneGiven, n2 |-> NoneGiven]
    /\ mn_pc = "parse"
    /\ mn_msg = "none"
    /\ mn_warn = {}
    /\ mn_null = FALSE

\* what an option leaves alone besides ctx
OptionFrame ==
    /\ UNCHANGED <<mn_pc, mn_msg, mn_warn, mn_null>>
    /\ UNCHANGED <<pwVars, brVars, dbVars, cmVars, swVars, bsVars, lpVars>>

\* the model given by a non-empty argument v, or g when v is empty
Given(g, v) ==
    IF Len(v) = 0 THEN g ELSE Some(Taylor(v[1], coeffs_of(v)))

\* case 1: --n1
OptN1 ==
    /\ mn_pc = "parse"
    /\ \E v \in ValueLists :
        mn_ctx' = [mn_ctx EXCEPT !.n1 = opt_values(@, parse_numeric(v, FALSE, RNaN, RNaN).result)]
    /\ mn_given' = [mn_given EXCEPT !.n1 = NoneGiven]
    /\ OptionFrame

\* case 2: --n2
OptN2 ==
    /\ mn_pc = "parse"
    /\ \E v \in {<<Int2R(4)>>} :
        mn_ctx' = [mn_ctx EXCEPT !.n2 = opt_values(@, parse_numeric(v, FALSE, RNaN, RNaN).result)]
    /\ mn_given' = [mn_given EXCEPT !.n2 = NoneGiven]
    /\ OptionFrame

\* case 3: --n1-model
OptN1Model ==
    /\ mn_pc = "parse"
    /\ \E v \in ModelLists :
        /\ mn_ctx' = [mn_ctx EXCEPT !.n1 = opt_model(@, parse_numeric(v, FALSE, RNaN, RNaN).result)]
        /\ mn_given' = [mn_given EXCEPT !.n1.wavelength_model = Given(@, v)]
    /\ OptionFrame

\* case 4: --n2-model
OptN2Model ==
    /\ mn_pc = "parse"
    /\ \E v \in LowModelLists :
        /\ mn_ctx' = [mn_ctx EXCEPT !.n2 = opt_model(@, parse_numeric(v, FALSE, RNaN, RNaN).result)]
        /\ mn_given' = [mn_given EXCEPT !.n2.wavelength_model = Given(@, v)]
    /\ OptionFrame

\* case 5: --loss-model
OptLossModel ==
    /\ mn_pc = "parse"
    /\ \E v \in {<<>>, <<Int2R(2), Int2R(1)>>} :
        mn_ctx' = [mn_ctx EXCEPT !.loss = opt_loss_model(@, parse_numeric(v, FALSE, RNaN, RNaN).result)]
    /\ UNCHANGED mn_given
    /\ OptionFrame

\* case 6: --w1
OptW1 ==
    /\ mn_pc = "parse"
    /\ mn_ctx' = [mn_ctx EXCEPT !.width1 = parse_numeric(<<Int2R(2)>>, FALSE, RNaN, RNaN).result]
    /\ UNCHANGED mn_given
    /\ OptionFrame

\* case 7: --w2
OptW2 ==
    /\ mn_pc = "parse"
    /\ mn_ctx' = [mn_ctx EXCEPT !.width2 = parse_numeric(<<Int2R(2)>>, FALSE, RNaN, RNaN).result]
    /\ UNCHANGED mn_given
    /\ OptionFrame

\* case 8: --n1-width-model
OptN1WidthModel ==
    /\ mn_pc = "parse"
    /\ \E v \in WidthModelLists :
        /\ mn_ctx' = [mn_ctx EXCEPT !.n1 = opt_width_model(@, parse_numeric(v, FALSE, RNaN, RNaN).result)]
        /\ mn_given' = [mn_given EXCEPT !.n1.width_model = Given(@, v)]
    /\ OptionFrame

\* case 9: --n2-width-model
OptN2WidthModel ==
    /\ mn_pc = "parse"
    /\ \E v \in LowWidthModelLists :
        /\ mn_ctx' = [mn_ctx EXCEPT !.n2 = opt_width_model(@, parse_numeric(v, FALSE, RNaN, RNaN).result)]
        /\ mn_given' = [mn_given EXCEPT !.n2.width_model = Given(@, v)]
    /\ OptionFrame

\* case 10: --dl
OptDl ==
    /\ mn_pc = "parse"
    /\ \E x \in {Int2R(0), Int2R(1)} : mn_ctx' = [mn_ctx EXCEPT !.dl = x]
    /\ UNCHANGED mn_given
    /\ OptionFrame

\* case 'a': --loss
OptLoss ==
    /\ mn_pc = "parse"
    /\ \E v \in LossLists :
        mn_ctx' = [mn_ctx EXCEPT !.loss = opt_values(@, parse_numeric(v, FALSE, RNaN, RNaN).result)]
    /\ UNCHANGED mn_given
    /\ OptionFrame

\* case 'c': --dutycycle, whose values are bounded by 0 and 1; the exception
\* of parse_numeric is caught by main, which returns -1
OptDutycycle ==
    /\ mn_pc = "parse"
    /\ \E v \in DutyCycleLists :
        LET r == parse_numeric(v, TRUE, Int2R(0), Int2R(1))
        IN  /\ mn_ctx' = [mn_ctx EXCEPT !.duty_cycles = r.result]
            /\ mn_pc' = IF r.threw THEN "exit" ELSE "parse"
            /\ mn_msg' = IF r.threw THEN "[ERROR] parsing" ELSE mn_msg
    /\ UNCHANGED <<mn_given, mn_warn, mn_null>>
    /\ UNCHANGED <<pwVars, brVars, dbVars, cmVars, swVars, bsVars, lpVars>>

\* case 'd': --device
OptDevice ==
    /\ mn_pc = "parse"
    /\ \E device \in {"bragg", "other"} :
        mn_ctx' = IF device = "bragg" THEN [mn_ctx EXCEPT !.device = "BRAGG"]
                  ELSE mn_ctx
    /\ UNCHANGED mn_given
    /\ OptionFrame

\* case 'l': --wavelength
OptWavelength ==
    /\ mn_pc = "parse"
    /\ \E v \in {<<>>, <<Int2R(4), Int2R(2)>>} :
        mn_ctx' = [mn_ctx EXCEPT !.wavelengths = parse_numeric(v, FALSE, RNaN, RNaN).result]
    /\ UNCHANGED mn_given
    /\ OptionFrame

\* case 'N': --n-periods
OptNPeriods ==
    /\ mn_pc = "parse"
    /\ mn_ctx' = [mn_ctx EXCEPT !.Ns = parse_numeric(<<Int2R(1)>>, FALSE, RNaN, RNaN).result]
    /\ UNCHANGED mn_given
    /\ OptionFrame

\* case 'p': --period
OptPeriod ==
    /\ mn_pc = "parse"
    /\ mn_ctx' = [mn_ctx EXCEPT !.periods = parse_numeric(<<Int2R(2)>>, FALSE, RNaN, RNaN).result]
    /\ UNCHANGED mn_given
    /\ OptionFrame

\* case 'h' and default: the usage is written and main returns -1
OptHelp ==
    /\ mn_pc = "parse"
    /\ mn_pc' = "exit"
    /\ mn_msg' = "usage"
    /\ UNCHANGED <<mn_ctx, mn_given, mn_warn, mn_null>>
    /\ UNCHANGED <<pwVars, brVars, dbVars, cmVars, swVars, bsVars, lpVars>>

\* ctx->n1->sampled and the like: the value read.  Through a null pointer the
\* read is undefined behaviour: it yields either value, or ends the process.
sampled_read(ptr) ==
    IF Has(ptr)
    THEN {[v |-> Has(Value(ptr).sampled), null |-> FALSE]}
    ELSE {[v |-> b, null |-> TRUE] : b \in BOOLEAN}

\* ctx->n1->sampled || ctx->n2->sampled || ctx->loss->sampled, evaluated from
\* left to right until one operand is true
sampled_check(ctx) ==
    {[v |-> r1.v \/ r2.v \/ r3.v,
      null |-> r1.null \/ (~r1.v /\ (r2.null \/ (~r2.v /\ r3.null)))] :
        r1 \in sampled_read(ctx.n1), r2 \in sampled_read(ctx.n2),
        r3 \in sampled_read(ctx.loss)}

\* the checks of the lists and of the model pointers, in the order of the
\* code: the message of the first that fails, or "none"
presence_checks(ctx) ==
    IF Len(ctx.periods) = 0 THEN "bragg: Must specify at least one period"
    ELSE IF Len(ctx.duty_cycles) = 0 THEN "bragg: Must specify dutycycle"
    ELSE IF Len(ctx.Ns) = 0 THEN "bragg: Must specify number of gratings"
    ELSE IF ~Has(ctx.n1) THEN "bragg: Must specify n1 with --n1 or --n1-model"
    ELSE IF ~Has(ctx.n2) THEN "bragg: Must specify n2 with --n2 or --n2-model"
    ELSE IF ~Has(ctx.loss) THEN "bragg: Must specify loss with --loss or --loss-model"
    ELSE "none"

\* the outcome of the validation once the group delay checks are done
validation_end(ctx, warn, null) ==
    LET msg == presence_checks(ctx)
    IN  [pc |-> IF msg = "none" THEN "run" ELSE "exit", msg |-> msg,
         warn |-> warn, null |-> null]

\* the try block of the validation: its possible outcomes
validation(ctx) ==
    IF Len(ctx.wavelengths) = 0
    THEN {[pc |-> "exit", msg |-> "Must specify at least one wavelength",
           warn |-> {}, null |-> FALSE]}
    ELSE IF ctx.device # "BRAGG"
    THEN {[pc |-> "exit", msg |-> "supported devices: 'bragg'.",
           warn |-> {}, null |-> FALSE]}
    ELSE IF IsZero(ctx.dl)
    THEN {validation_end(ctx, {"group delay: wavelength interval=0, ignored"}, FALSE)}
    ELSE UNION {
            {validation_end(ctx,
                IF c.v THEN {"group delay: not supported for sampled data"} ELSE {},
                c.null)}
            \cup (IF c.null
                  THEN {[pc |-> "crashed", msg |-> "none", warn |-> {}, null |-> TRUE]}
                  ELSE {})
          : c \in sampled_check(ctx)}

\* getopt_long returns -1: the options are done and the validation runs; it
\* returns -1 with a message, or lets main go on to the simulation
Validate ==
    /\ mn_pc = "parse"
    /\ \E r \in validation(mn_ctx) :
        /\ mn_pc' = r.pc
        /\ mn_msg' = r.msg
        /\ mn_warn' = r.warn
        /\ mn_null' = r.null
    /\ UNCHANGED <<mn_ctx, mn_given>>
    /\ UNCHANGED <<pwVars, brVars, dbVars, cmVars, swVars, bsVars, lpVars>>

MainNext ==
    \/ OptN1
    \/ OptN2
    \/ OptN1Model
    \/ OptN2Model
    \/ OptLossModel
    \/ OptW1
    \/ OptW2
    \/ OptN1WidthModel
    \/ OptN2WidthModel
    \/ OptDl
    \/ OptLoss
    \/ OptDutycycle
    \/ OptDevice
    \/ OptWavelength
    \/ OptNPeriods
    \/ OptPeriod
    \/ OptHelp
    \/ Validate

(***************************************************************************)
(* Sequences of calls on one Bragg object: the three member functions are   *)
(* called in any order, each time with arguments drawn anew.                *)
(***************************************************************************)
\* a Bragg object whose scattering_matrix uses up its period count
self_after_consumed(self, call) ==
    IF call = "scattering_matrix" THEN [self EXCEPT !.N = Int2R(0)] ELSE self

\* the fields of the object when a member function returns: transfer_matrix,
\* scattering_matrix and scattering_coefficients read _period, _duty_cycle and
\* _N and write no field
self_after(self, call) ==
    self

\* the outcomes of a call in one run: an out-of-range _N converts to the
\* count conv at every call of the run
converted(self, outs, conv) ==
    {o \in outs : Cardinality(size_t_of(self.N)) = 1 \/ o.count = conv}

\* the gratings and the arguments drawn
CallGratings ==
    {Bragg(Int2R(2), Rat(1, 2), N) : N \in {Int2R(2), Rat(5, 2), Int2R(-1)}}

CallArgs ==
    {[wavelength |-> Int2R(4), n1 |-> Int2R(4), n2 |-> Int2R(1), loss |-> Int2R(0)],
     [wavelength |-> Int2R(2), n1 |-> Int2R(-1), n2 |-> Int2R(1), loss |-> Int2R(0)]}

CallsIdle ==
    /\ bs_self = Bragg(Int2R(0), Int2R(0), Int2R(0))
    /\ bs_made = Bragg(Int2R(0), Int2R(0), Int2R(0))
    /\ bs_conv = 0
    /\ bs_call = "none"
    /\ bs_args = [wavelength |-> Int2R(0), n1 |-> Int2R(0), n2 |-> Int2R(0),
                  loss |-> Int2R(0)]
    /\ bs_ret = [repeat |-> FALSE]
    /\ bs_first = {}

\* Bragg grating(period, duty_cycle, N)
CallsInit ==
    /\ bs_self \in CallGratings
    /\ bs_made = bs_self
    /\ bs_conv \in 0 .. MaxUB
    /\ bs_call = "none"
    /\ bs_args = [wavelength |-> Int2R(0), n1 |-> Int2R(0), n2 |-> Int2R(0),
                  loss |-> Int2R(0)]
    /\ bs_ret = [repeat |-> FALSE]
    /\ bs_first = {}

\* whether the function call has been called with the arguments a before
Seen(call, a) ==
    \E e \in bs_first : e.call = call /\ e.args = a

\* the first results once call has returned r for the arguments a
Remember(call, a, r) ==
    IF Seen(call, a) THEN bs_first
    ELSE bs_first \cup {[call |-> call, args |-> a, out |-> r]}

\* a call of transfer_matrix
CallTransferMatrix ==
    \E a \in CallArgs : \E r \in {transfer_matrix(bs_self, a.wavelength, a.n1, a.n2, a.loss)} :
        /\ bs_call' = "transfer_matrix"
        /\ bs_args' = a
        /\ bs_ret' = [repeat |-> Seen("transfer_matrix", a), out |-> r]
        /\ bs_self' = self_after(bs_self, "transfer_matrix")
        /\ bs_first' = Remember("transfer_matrix", a, r)
        /\ UNCHANGED <<bs_made, bs_conv>>
        /\ UNCHANGED <<pwVars, brVars, dbVars, cmVars, swVars, mnVars, lpVars>>

\* a call of scattering_matrix
CallScatteringMatrix ==
    \E a \in CallArgs : \E r \in converted(bs_self,
                scattering_matrix(bs_self, a.wavelength, a.n1, a.n2, a.loss), bs_conv) :
        /\ bs_call' = "scattering_matrix"
        /\ bs_args' = a
        /\ bs_ret' = [repeat |-> Seen("scattering_matrix", a), out |-> r]
        /\ bs_self' = self_after(bs_self, "scattering_matrix")
        /\ bs_first' = Remember("scattering_matrix", a, r)
        /\ UNCHANGED <<bs_made, bs_conv>>
        /\ UNCHANGED <<pwVars, brVars, dbVars, cmVars, swVars, mnVars, lpVars>>

\* a call of scattering_coefficients
CallScatteringCoefficients ==
    \E a \in CallArgs : \E r \in converted(bs_self,
                scattering_coefficients(bs_self, a.wavelength, a.n1, a.n2, a.loss), bs_conv) :
        /\ bs_call' = "scattering_coefficients"
        /\ bs_args' = a
        /\ bs_ret' = [repeat |-> Seen("scattering_coefficients", a), out |-> r]
        /\ bs_self' = self_after(bs_self, "scattering_coefficients")
        /\ bs_first' = Remember("scattering_coefficients", a, r)
        /\ UNCHANGED <<bs_made, bs_conv>>
        /\ UNCHANGED <<pwVars, brVars, dbVars, cmVars, swVars, mnVars, lpVars>>

CallsNext ==
    \/ CallTransferMatrix
    \/ CallScatteringMatrix
    \/ CallScatteringCoefficients

(***************************************************************************)
(* One call of matrix_power taken statement by statement: the entry, each   *)
(* iteration of the while loop, and the copy of result into TN.             *)
(***************************************************************************)
\* an iteration that squares base even when no bit of N is left
loop_iteration_alwayssquare(result, base, N, multiplies) ==
    LET odd  == (N % 2) = 1
    IN  [result |-> IF odd THEN multiply(result, base, zeros) ELSE result,
         base |-> multiply(base, base, zeros),
         N |-> N \div 2,
         multiplies |-> multiplies + (IF odd THEN 1 ELSE 0) + 1]

\* one iteration of while (N > 0): result *= base if N is odd, N >>= 1, and
\* base *= base if N is still positive
loop_iteration(result, base, N, multiplies) ==
    LET odd  == (N % 2) = 1
        sq   == (N \div 2) > 0
    IN  [result |-> IF odd THEN multiply(result, base, zeros) ELSE result,
         base |-> IF sq THEN multiply(base, base, zeros) ELSE base,
         N |-> N \div 2,
         multiplies |-> multiplies + (IF odd THEN 1 ELSE 0) + (IF sq THEN 1 ELSE 0)]

LoopIdle ==
    /\ lp_T = zeros
    /\ lp_N0 = 0
    /\ lp_pc = "idle"
    /\ lp_N = 0
    /\ lp_result = zeros
    /\ lp_base = zeros
    /\ lp_multiplies = 0
    /\ lp_TN = zeros

\* matrix_power(T, TN, N) is called
LoopInit ==
    /\ lp_T \in PowerMatrices
    /\ lp_N0 \in 0 .. 2 * MaxN
    /\ lp_pc = "entry"
    /\ lp_N = lp_N0
    /\ lp_result = zeros
    /\ lp_base = zeros
    /\ lp_multiplies = 0
    /\ lp_TN = zeros

\* result is set to the identity; with N = 0 it is copied to TN and the
\* function returns, else T is copied to base
LoopEnter ==
    /\ lp_pc = "entry"
    /\ lp_result' = identity
    /\ IF lp_N = 0
       THEN /\ lp_TN' = identity
            /\ lp_pc' = "done"
            /\ UNCHANGED lp_base
       ELSE /\ lp_base' = lp_T
            /\ lp_pc' = "loop"
            /\ UNCHANGED lp_TN
    /\ UNCHANGED <<lp_T, lp_N0, lp_N, lp_multiplies>>
    /\ UNCHANGED <<pwVars, brVars, dbVars, cmVars, swVars, mnVars, bsVars>>

\* while (N > 0): one iteration
LoopIterate ==
    /\ lp_pc = "loop"
    /\ lp_N > 0
    /\ LET it == loop_iteration(lp_result, lp_base, lp_N, lp_multiplies)
       IN  /\ lp_result' = it.result
           /\ lp_base' = it.base
           /\ lp_N' = it.N
           /\ lp_multiplies' = it.multiplies
    /\ UNCHANGED <<lp_T, lp_N0, lp_pc, lp_TN>>
    /\ UNCHANGED <<pwVars, brVars, dbVars, cmVars, swVars, mnVars, bsVars>>

\* the loop is left: result is copied to TN and the function returns
LoopExit ==
    /\ lp_pc = "loop"
    /\ lp_N = 0
    /\ lp_TN' = lp_result
    /\ lp_pc' = "done"
    /\ UNCHANGED <<lp_T, lp_N0, lp_N, lp_result, lp_base, lp_multiplies>>
    /\ UNCHANGED <<pwVars, brVars, dbVars, cmVars, swVars, mnVars, bsVars>>

LoopNext ==
    \/ LoopEnter
    \/ LoopIterate
    \/ LoopExit

\* what a statement of matrix_power does to the position and to N: the entry
\* goes on to the loop or returns, an iteration halves N, the exit returns
LoopControl ==
    \/ /\ lp_pc = "entry"
       /\ lp_pc' = (IF lp_N = 0 THEN "done" ELSE "loop")
       /\ lp_N' = lp_N
    \/ /\ lp_pc = "loop"
       /\ lp_N > 0
       /\ lp_pc' = lp_pc
       /\ lp_N' = lp_N \div 2
    \/ /\ lp_pc = "loop"
       /\ lp_N = 0
       /\ lp_pc' = "done"
       /\ lp_N' = lp_N

(***************************************************************************)
(* Specifications.                                                          *)
(***************************************************************************)
InitPower ==
    PowerInit /\ BraggIdle /\ DbIdle /\ CmlIdle /\ SweepIdle /\ MainIdle /\ CallsIdle /\ LoopIdle

SpecPower ==
    InitPower /\ [][PowerNext]_vars

InitBragg ==
    BraggInit /\ PowerIdle /\ DbIdle /\ CmlIdle /\ SweepIdle /\ MainIdle /\ CallsIdle /\ LoopIdle

SpecBragg ==
    InitBragg /\ [][BraggNext]_vars

InitDb ==
    DbInit /\ PowerIdle /\ BraggIdle /\ CmlIdle /\ SweepIdle /\ MainIdle /\ CallsIdle /\ LoopIdle

SpecDb ==
    InitDb /\ [][DbNext]_vars

InitCml ==
    CmlInit /\ PowerIdle /\ BraggIdle /\ DbIdle /\ SweepIdle /\ MainIdle /\ CallsIdle /\ LoopIdle

SpecCml ==
    InitCml /\ [][CmlNext]_vars

InitSweep ==
    SweepInit /\ PowerIdle /\ BraggIdle /\ DbIdle /\ CmlIdle /\ MainIdle /\ CallsIdle /\ LoopIdle

SpecSweep ==
    InitSweep /\ [][SweepNext]_vars

InitMain ==
    MainInit /\ PowerIdle /\ BraggIdle /\ DbIdle /\ CmlIdle /\ SweepIdle /\ CallsIdle /\ LoopIdle

SpecMain ==
    InitMain /\ [][MainNext]_vars

InitCalls ==
    CallsInit /\ PowerIdle /\ BraggIdle /\ DbIdle /\ CmlIdle /\ SweepIdle /\ MainIdle /\ LoopIdle

SpecCalls ==
    InitCalls /\ [][CallsNext]_vars

InitLoop ==
    LoopInit /\ PowerIdle /\ BraggIdle /\ DbIdle /\ CmlIdle /\ SweepIdle /\ MainIdle /\ CallsIdle

\* a call that has started runs on: the statements of matrix_power wait for
\* nothing, so the next one is always taken
SpecLoop ==
    InitLoop /\ [][LoopNext]_vars /\ WF_<<lp_pc, lp_N>>(LoopControl)

(***************************************************************************)
(* Claims about the matrix algebra.                                         *)
(***************************************************************************)
\* the N-fold product T * T * ... * T by left-to-right repeated multiplication
RECURSIVE NaivePower(_, _)
NaivePower(T, N) ==
    IF N = 0 THEN identity ELSE multiply(NaivePower(T, N - 1), T, zeros)

PowerCalls ==
    {<<pw_pa, pw_a>>, <<pw_pb, pw_b>>, <<pw_pab, pw_a + pw_b>>}

\* C1: for every matrix T and exponent N >= 0, matrix_power leaves in TN the
\* N-fold product of T that naive left-to-right multiplication gives, and
\* with N = 1 it returns T itself.
C1_PowerIsNaivePower ==
    \A c \in PowerCalls :
        c[1] # NoCall =>
            /\ MatEq(c[1].TN, NaivePower(pw_T, c[2]))
            /\ c[2] = 1 => MatEq(c[1].TN, pw_T)

\* a power with a mixed-bit exponent (5 = 101b) of a matrix whose powers are
\* neither the identity nor zero has been computed
C1_Witness ==
    /\ pw_pab # NoCall
    /\ pw_a + pw_b = 5
    /\ ~MatEq(pw_pab.TN, identity)
    /\ ~MatEq(pw_pab.TN, zeros)
    /\ ~MatEq(pw_pab.TN, pw_T)

\* C2: with N = 0 matrix_power returns the identity for any T, the all-zero
\* matrix included, and does not read T.
C2_PowerZeroIsIdentity ==
    \A c \in PowerCalls :
        (c[1] # NoCall /\ c[2] = 0) =>
            /\ c[1].TN = identity
            /\ ~c[1].readsT

\* matrix_power(T, TN, 0) has returned for the all-zero T
C2_Witness ==
    /\ pw_T = zeros
    /\ pw_a = 0
    /\ pw_pa # NoCall

\* C3: composition law: matrix_power(T, a + b) equals the product of
\* matrix_power(T, a) and matrix_power(T, b).
C3_PowerComposition ==
    (pw_pab # NoCall /\ pw_prod # NoCall) => MatEq(pw_pab.TN, pw_prod.TN)

\* both sides of the law are computed for a >= 1, b >= 2 and a matrix whose
\* powers differ from each other
C3_Witness ==
    /\ pw_pab # NoCall
    /\ pw_prod # NoCall
    /\ pw_a >= 1
    /\ pw_b >= 2
    /\ ~MatEq(pw_pab.TN, pw_pa.TN)
    /\ ~MatEq(pw_pab.TN, pw_pb.TN)
    /\ ~MatEq(pw_pab.TN, zeros)

\* floor(log2 n) for n >= 1
RECURSIVE Log2(_)
Log2(n) ==
    IF n <= 1 THEN 0 ELSE 1 + Log2(n \div 2)

\* the number of bits set in n
RECURSIVE BitsSet(_)
BitsSet(n) ==
    IF n = 0 THEN 0 ELSE (n % 2) + BitsSet(n \div 2)

\* the calls of multiply stay within the bound, and the call that has
\* returned made one per set bit of N plus one per halving that left N > 0
MultipliesWithinBound ==
    /\ lp_N0 = 0 => lp_multiplies = 0
    /\ lp_N0 >= 1 => lp_multiplies <= 2 * Log2(lp_N0) + 1
    /\ (lp_pc = "done" /\ lp_N0 >= 1) =>
           /\ lp_multiplies = BitsSet(lp_N0) + Log2(lp_N0)
           /\ MatEq(lp_TN, NaivePower(lp_T, lp_N0))

\* C15: matrix_power terminates for every N >= 0 and uses O(log N) calls of
\* multiply: none for N = 0 and at most 2 * floor(log2 N) + 1 for N >= 1.
\* Each statement moves the call on or halves N, so the call returns.
C15_TerminatesInLogMultiplies ==
    /\ [](lp_pc # "idle" => MultipliesWithinBound)
    /\ [][LoopControl]_<<lp_pc, lp_N>>
    /\ <>(lp_pc = "done")

\* a call with an exponent of at least five has returned a power that is
\* neither the identity nor zero
C15_Witness ==
    /\ lp_pc = "done"
    /\ lp_N0 >= 5
    /\ lp_multiplies >= 4
    /\ ~MatEq(lp_TN, identity)
    /\ ~MatEq(lp_TN, zeros)

(***************************************************************************)
(* Claims about the Bragg grating.                                         *)
(***************************************************************************)
\* C4: a grating constructed with N = 0 reports R = 0 and T = 1 for any
\* wavelength, indices and loss.
C4_ZeroPeriodsIdentityScattering ==
    (br_call = "scattering_coefficients" /\ IsZero(br_self.N)) =>
        /\ REq(br_ret.R, Int2R(0))
        /\ REq(br_ret.T, Int2R(1))

\* scattering_coefficients has returned for N = 0, a lossy layer and indices
\* whose single-period matrix is not even finite
C4_Witness ==
    /\ br_call = "scattering_coefficients"
    /\ IsZero(br_self.N)
    /\ ~IsZero(br_args.loss)
    /\ ~MatIsFinite(br_ret.Tp)

\* a period count that is negative or not integer-valued
InvalidPeriodCount(N) ==
    \/ ~IsFinite(N)
    \/ N.d # 1
    \/ N.s = -1 /\ ~IsZero(N)

\* C5: for a negative or non-integer N, scattering_matrix and
\* scattering_coefficients signal InvalidPeriodCount and produce no result.
C5_InvalidPeriodCountSignalled ==
    (br_call \in {"scattering_matrix", "scattering_coefficients"}
        /\ InvalidPeriodCount(br_self.N)) =>
            /\ br_err = "InvalidPeriodCount"
            /\ br_ret = BrNone

\* C6: index_step with n1 * n2 <= 0 signals InvalidRefractiveIndexProduct, and
\* no matrix with NaN or infinite entries reaches the caller, also through
\* Bragg::transfer_matrix.
C6_InvalidIndexProductSignalled ==
    (br_call # "none" /\ ~RLess(Int2R(0), RMul(br_args.n1, br_args.n2))) =>
        /\ br_err = "InvalidRefractiveIndexProduct"
        /\ MatIsFinite(br_ret.T_12)
        /\ MatIsFinite(br_ret.T_21)
        /\ MatIsFinite(br_ret.Tp)

\* C7: when S[0][0] = 0 the coefficient extraction signals
\* SingularScatteringMatrix and returns no R or T of a division by zero.
C7_SingularScatteringMatrixSignalled ==
    (db_call = "scattering_coefficients_db" /\ CIsZero(db_S[0][0])) =>
        /\ db_err = "SingularScatteringMatrix"
        /\ IsFinite(db_ret.R)
        /\ IsFinite(db_ret.T)

\* the matrix product A * B
MatProduct(A, B) ==
    [i \in Idx |-> [j \in Idx |->
        CAdd(CMul(A[i][0], B[0][j]), CMul(A[i][1], B[1][j]))]]

\* the same double: numerically equal, or both NaN
SameReal(x, y) ==
    REq(x, y) \/ (IsNaN(x) /\ IsNaN(y))

SameMat(A, B) ==
    \A i \in Idx : \A j \in Idx :
        /\ SameReal(A[i][j].re, B[i][j].re)
        /\ SameReal(A[i][j].im, B[i][j].im)

\* the four factors of one period, for the grating and arguments of the harness
PeriodFactors ==
    LET l1 == RMul(br_self.period, br_self.duty_cycle)
        l2 == RMul(br_self.period, RSub(Int2R(1), br_self.duty_cycle))
    IN  <<homogeneous_layer(br_args.wavelength, l1, br_args.n1, br_args.loss),
          index_step(br_args.n1, br_args.n2),
          homogeneous_layer(br_args.wavelength, l2, br_args.n2, br_args.loss),
          index_step(br_args.n2, br_args.n1)>>

\* the product of the four factors taken in the order p
OrderedProduct(p) ==
    LET F == PeriodFactors
    IN  MatProduct(F[p[1]], MatProduct(F[p[2]], MatProduct(F[p[3]], F[p[4]])))

Orderings ==
    {p \in [1 .. 4 -> 1 .. 4] : \A x, y \in 1 .. 4 : x # y => p[x] # p[y]}

\* C9: transfer_matrix writes to Tp the ordered product P1 * I12 * P2 * I21;
\* the reuse of the buffer T_11 does not change it.
C9_TransferMatrixOrderedProduct ==
    br_call = "transfer_matrix" =>
        SameMat(br_ret.Tp, OrderedProduct(<<1, 2, 3, 4>>))

\* transfer_matrix has returned a finite Tp that differs from the product of
\* the four factors in every other order
C9_Witness ==
    /\ br_call = "transfer_matrix"
    /\ MatIsFinite(br_ret.Tp)
    /\ \A p \in Orderings \ {<<1, 2, 3, 4>>} :
            ~MatEq(br_ret.Tp, OrderedProduct(p))

\* return std::make_tuple(R, T): the tuple a call of scattering_coefficients
\* hands to its caller
make_tuple(ret) ==
    <<ret.R, ret.T>>

\* std::arg of a complex number, in quarter turns, for the numbers on the
\* axes and the diagonals
CArg(z) ==
    IF ~CIsFinite(z) THEN RNaN
    ELSE IF IsZero(z.im) THEN (IF z.re.s = 1 THEN Int2R(0) ELSE Int2R(2 * z.im.s))
    ELSE IF IsZero(z.re) THEN Int2R(z.im.s)
    ELSE IF REq(Fin(1, z.re.n, z.re.d), Fin(1, z.im.n, z.im.d))
    THEN (IF z.re.s = 1 THEN Rat(z.im.s, 2) ELSE Rat(3 * z.im.s, 2))
    ELSE CHOOSE v \in {} : TRUE

\* C13: each call of scattering_coefficients yields the four outputs
\* (R, T, phase_r, phase_t): R = |S10/S00|^2, T = |1/S00|^2,
\* phase_r = arg(S10/S00), phase_t = arg(1/S00), which the sweep consumes.
C13_FourOutputs ==
    br_call = "scattering_coefficients" =>
        LET out == make_tuple(br_ret)
            r   == CDiv(br_ret.S[1][0], br_ret.S[0][0])
            t   == CDiv(CReal(Int2R(1)), br_ret.S[0][0])
        IN  /\ Len(out) = 4
            /\ SameReal(out[1], AbsSquared(r))
            /\ SameReal(out[2], AbsSquared(t))
            /\ SameReal(out[3], CArg(r))
            /\ SameReal(out[4], CArg(t))

C10_Base ==
    IF Has(cm_model.constant) THEN Value(cm_model.constant)
    ELSE IF Has(cm_model.sampled) THEN Value(cm_model.sampled)[cm_args.i + 1]
    ELSE Int2R(0)

C10_W ==
    IF Has(cm_model.wavelength_model)
    THEN taylor_expansion("minus", Value(cm_model.wavelength_model), cm_args.l,
                          Int2R(0)).value
    ELSE Int2R(0)

C10_D ==
    IF Has(cm_model.width_model)
    THEN taylor_expansion("plus", Value(cm_model.width_model), cm_args.w,
                          Int2R(0)).value
    ELSE Int2R(0)

\* C10: an evaluation whose reads are all within their vectors returns
\* base + W + D: base is the constant if present, samples[i] if sampled is
\* present and 0 otherwise; W and D are the values of the wavelength and width
\* models (0 if absent).  A constant-only model returns its constant, a
\* sampled-only model samples[i].
C10_EvaluateIsBasePlusTerms ==
    (cm_call = "evaluate" /\ ~cm_ret.oob) =>
        /\ ~cm_ret.crash
        /\ REq(cm_ret.value, RAdd(RAdd(C10_Base, C10_W), C10_D))
        /\ (~Has(cm_model.wavelength_model) /\ ~Has(cm_model.width_model)) =>
               REq(cm_ret.value, C10_Base)

\* a model with samples and both terms has been evaluated at an index >= 1,
\* and neither term is zero
C10_Witness ==
    /\ cm_call = "evaluate"
    /\ ~cm_ret.oob
    /\ Has(cm_model.sampled)
    /\ cm_args.i >= 1
    /\ Has(cm_model.wavelength_model)
    /\ Has(cm_model.width_model)
    /\ ~IsZero(C10_W)
    /\ ~IsZero(C10_D)
    /\ ~REq(C10_W, C10_D)

\* the sum over i >= 1 of coeffs[i] * dx^i, from term i on
RECURSIVE HigherOrderTerms(_, _, _)
HigherOrderTerms(coeffs, dx, i) ==
    IF i < Len(coeffs)
    THEN RAdd(RMul(coeffs[i + 1], RPow(dx, i)), HigherOrderTerms(coeffs, dx, i + 1))
    ELSE Int2R(0)

\* an evaluation, with all reads in range, of a model that has a constant or
\* sampled base together with a wavelength dispersion term
C11_Case ==
    /\ cm_call = "evaluate"
    /\ ~cm_ret.oob
    /\ Has(cm_model.constant) \/ Has(cm_model.sampled)
    /\ Has(cm_model.wavelength_model)

C11_Sum ==
    LET wm == Value(cm_model.wavelength_model)
    IN  HigherOrderTerms(wm.coeffs, RSub(cm_args.l, wm.x0), 1)

\* C11 as stated: with a base and a wavelength term, evaluation returns base
\* minus the sum over i >= 1 of coeffs[i] * (l - l0)^i (plus the width term):
\* coeffs[0] does not contribute when a base is present.
C11_FirstCoefficientOnlyWithoutBase ==
    C11_Case =>
        REq(cm_ret.value, RAdd(RSub(C10_Base, C11_Sum), C10_D))

\* C11 amended: with a base and a wavelength term, evaluation returns base
\* plus coeffs[0] minus the sum over i >= 1 of coeffs[i] * (l - l0)^i (plus the
\* width term): coeffs[0] contributes whether or not a base is present.
C11_FirstCoefficientAlwaysAdded ==
    C11_Case =>
        REq(cm_ret.value,
            RAdd(RSub(RAdd(C10_Base, Value(cm_model.wavelength_model).coeffs[1]),
                      C11_Sum), C10_D))

\* a model with a base and a wavelength term of three coefficients has been
\* evaluated away from the expansion point, and the higher-order terms do
\* not cancel
C11_Witness ==
    /\ C11_Case
    /\ Len(Value(cm_model.wavelength_model).coeffs) = 3
    /\ ~REq(cm_args.l, Value(cm_model.wavelength_model).x0)
    /\ ~IsZero(C11_Sum)
    /\ ~IsZero(Value(cm_model.wavelength_model).coeffs[1])

\* an evaluation, with all reads in range, of a model that has a width
\* dispersion term
C16_Case ==
    /\ cm_call = "evaluate"
    /\ ~cm_ret.oob
    /\ Has(cm_model.width_model)

\* C16: the width term contributes dn(w) = b1 (w - w0) + b2 (w - w0)^2 + ...,
\* terms of order >= 1 only: evaluation returns the base and wavelength terms
\* plus that sum, so at w = w0 the width term contributes 0 whatever the first
\* stored coefficient is.
C16_WidthTermOrderOneAndUp ==
    C16_Case =>
        LET dm == Value(cm_model.width_model)
            dn == HigherOrderTerms(dm.coeffs, RSub(cm_args.w, dm.x0), 1)
        IN  /\ REq(cm_ret.value, RAdd(RAdd(C10_Base, C10_W), dn))
            /\ REq(cm_args.w, dm.x0) => REq(cm_ret.value, RAdd(C10_Base, C10_W))

(***************************************************************************)
(* Claims about the sweep.                                                  *)
(***************************************************************************)
\* the sweep has evaluated the three models at sample index LastIdx
SweepEvaluated ==
    sw_pc = "crashed" \/ sw_rows > 0

LastIdx ==
    IF sw_pc = "crashed" THEN sw_idx ELSE sw_row.idx

\* C8: evaluating a sampled model with an index i >= the length of its
\* samples signals SampleIndexOutOfRange and reads no element: in the sweep, a
\* sampled n1, n2 or loss list shorter than the wavelength list yields the
\* error and no read past the end of the list.
C8_SampleIndexOutOfRangeSignalled ==
    \A m \in {sw_ctx.n1, sw_ctx.n2, sw_ctx.loss} :
        (SweepEvaluated /\ Has(m.sampled) /\ LastIdx >= Len(Value(m.sampled))) =>
            /\ sw_err = "SampleIndexOutOfRange"
            /\ ~sw_oob

(***************************************************************************)
(* Claims about the command line and the validation.                        *)
(***************************************************************************)
\* the three model pointers of ctx
ModelPointers ==
    {mn_ctx.n1, mn_ctx.n2, mn_ctx.loss}

\* C12: after any sequence of --n1, --n2, --loss, --n1-model, --n2-model,
\* --loss-model, --n1-width-model and --n2-width-model options, each cml held
\* by ctx has at most one of constant and sampled.
C12_ConstantSampledExclusive ==
    \A ptr \in ModelPointers :
        Has(ptr) => ~(Has(Value(ptr).constant) /\ Has(Value(ptr).sampled))

\* options have left a sampled n1, an n2 of both models and a constant loss
C12_Witness ==
    /\ mn_pc = "parse"
    /\ Has(mn_ctx.n1) /\ Has(Value(mn_ctx.n1).sampled)
    /\ Has(mn_ctx.n2) /\ Has(Value(mn_ctx.n2).wavelength_model)
    /\ Has(Value(mn_ctx.n2).width_model)
    /\ Has(mn_ctx.loss) /\ Has(Value(mn_ctx.loss).constant)

\* C17: once --n1-model A and --n1-width-model B have both been given, in
\* either order and with no later --n1, the cml of n1 has wavelength_model = A
\* and width_model = B, the last values given, and neither constant nor
\* sampled; likewise for n2.
C17_ModelsAppend ==
    \A f \in {"n1", "n2"} :
        (Has(mn_given[f].wavelength_model) /\ Has(mn_given[f].width_model)) =>
            /\ Has(mn_ctx[f])
            /\ Value(mn_ctx[f]).wavelength_model = mn_given[f].wavelength_model
            /\ Value(mn_ctx[f]).width_model = mn_given[f].width_model
            /\ ~Has(Value(mn_ctx[f]).constant)
            /\ ~Has(Value(mn_ctx[f]).sampled)

\* both models have been given for n1 and for n2
C17_Witness ==
    /\ mn_pc = "parse"
    /\ \A f \in {"n1", "n2"} :
        /\ Has(mn_given[f].wavelength_model)
        /\ Has(mn_given[f].width_model)
    /\ Len(Value(mn_given.n1.width_model).coeffs) = 2
    /\ Value(mn_given.n2.wavelength_model).coeffs = <<Int2R(4)>>

\* the validation has run: main has left the option loop without a parsing
\* error or the usage
Validated ==
    /\ mn_pc \in {"exit", "run", "crashed"}
    /\ mn_msg \notin {"usage", "[ERROR] parsing"}

\* the setup error of the first model that is not set
MissingModelMessage ==
    IF ~Has(mn_ctx.n1) THEN "bragg: Must specify n1 with --n1 or --n1-model"
    ELSE IF ~Has(mn_ctx.n2) THEN "bragg: Must specify n2 with --n2 or --n2-model"
    ELSE "bragg: Must specify loss with --loss or --loss-model"

\* C18: validation never reads an unset model: if n1, n2 or loss was not
\* specified, main reports the 'Must specify' error of that model and returns
\* -1 before any field of it is read, and the sweep is entered only when all
\* three models are set.
C18_ValidationNeverReadsUnsetModel ==
    /\ ~mn_null
    /\ mn_pc # "crashed"
    /\ mn_pc = "run" => \A ptr \in ModelPointers : Has(ptr)
    /\ (/\ Validated
        /\ Len(mn_ctx.wavelengths) # 0 /\ Len(mn_ctx.periods) # 0
        /\ Len(mn_ctx.duty_cycles) # 0 /\ Len(mn_ctx.Ns) # 0
        /\ \E ptr \in ModelPointers : ~Has(ptr)) =>
            /\ mn_pc = "exit"
            /\ mn_msg = MissingModelMessage

====
